---- MODULE Spec2Model ----
(***************************************************************************)
(* Course-Rater (src/rater.py): per-attribute utility functions, the       *)
(* weighted aggregation compute_score, and main's read / apply / concat /  *)
(* sort / write pipeline.                                                  *)
(*                                                                         *)
(* Numbers.  A Python float is modelled as a record [k, n]: k = "fin" with *)
(* n the value in thousandths (1.0 is Fin(1000)), or k = "nan", "pinf",    *)
(* "ninf".  Every finite input of the model is a multiple of one tenth, so *)
(* the divisions by 4.0 and 2.0 of the utility functions are exact in      *)
(* thousandths.  k = "raise" stands for a call that raised an exception.   *)
(* Text is a TLA+ string; str(), strip(), lower(), upper(), `in' and       *)
(* float() are computed character by character.                            *)
(***************************************************************************)
EXTENDS Integers, Sequences, FiniteSets, TLC

VARIABLES
    v, fn, ret,               \* one utility call: argument, function, result
    row, res,                 \* one compute_score call: record, result
    pc, w, df, scores_df, df_out   \* main(): position, weights, tables

vars == <<v, fn, ret, row, res, pc, w, df, scores_df, df_out>>

----------------------------------------------------------------------------
(* Bounds of the model *)

\* numeric cells range over -MaxTenths/10 .. MaxTenths/10 in steps of 0.1
MaxTenths == 70
\* a text cell is at most MaxWords vocabulary words joined by blanks
MaxWords == 2
\* an input table has at most MaxRows rows
MaxRows == 2

\* the fixed-point unit: 1.0 is Unit thousandths
Unit == 10 * 10 * 10

----------------------------------------------------------------------------
(* Python floats *)

Fin(n) == [k |-> "fin", n |-> n]
NaN    == [k |-> "nan", n |-> 0]
PInf   == [k |-> "pinf", n |-> 0]
NInf   == [k |-> "ninf", n |-> 0]
Raised == [k |-> "raise", n |-> 0]

FNeg(a) ==
    CASE a.k = "fin"  -> Fin(0 - a.n)
      [] a.k = "pinf" -> NInf
      [] a.k = "ninf" -> PInf
      [] OTHER        -> NaN

FAdd(a, b) ==
    CASE a.k = "nan" \/ b.k = "nan"    -> NaN
      [] a.k = "fin" /\ b.k = "fin"    -> Fin(a.n + b.n)
      [] a.k = "fin"                   -> b
      [] b.k = "fin"                   -> a
      [] a.k = b.k                     -> a
      [] OTHER                         -> NaN     \* inf + -inf

FSub(a, b) == FAdd(a, FNeg(b))

FAbs(a) ==
    CASE a.k = "fin"  -> Fin(IF a.n < 0 THEN 0 - a.n ELSE a.n)
      [] a.k = "nan"  -> NaN
      [] OTHER        -> PInf

\* a / b for a finite b > 0 (the code divides by 4.0 and 2.0 only)
FDiv(a, b) ==
    IF a.k = "fin" THEN Fin((a.n * Unit) \div b.n) ELSE a

\* a < b; every comparison with NaN is False
FLt(a, b) ==
    CASE a.k = "nan" \/ b.k = "nan"  -> FALSE
      [] a.k = "fin" /\ b.k = "fin"  -> a.n < b.n
      [] a.k = "ninf"                -> b.k # "ninf"
      [] a.k = "pinf"                -> FALSE
      [] OTHER                       -> b.k = "pinf"   \* a finite, b infinite

\* Python's builtin min(a, b) / max(a, b): the first argument is kept unless
\* the second compares strictly smaller / larger
PyMin(a, b) == IF FLt(b, a) THEN b ELSE a
PyMax(a, b) == IF FLt(a, b) THEN b ELSE a

----------------------------------------------------------------------------
(* Raw cell values: None (row.get of a missing column), a float (NaN is an *)
(* empty cell), or text                                                    *)

None        == [k |-> "none",  f |-> NaN, s |-> ""]
FloatCell(x) == [k |-> "float", f |-> x,   s |-> ""]
StrCell(t)  == [k |-> "str",   f |-> NaN, s |-> t]

----------------------------------------------------------------------------
(* Python text operations *)

LowerChars == "abcdefghijklmnopqrstuvwxyz"
UpperChars == "ABCDEFGHIJKLMNOPQRSTUVWXYZ"
Digits     == "0123456789"

CharAt(s, i) == SubSeq(s, i, i)

\* 0 when c does not occur in s
IndexOf(c, s) ==
    IF \E i \in 1..Len(s) : CharAt(s, i) = c
    THEN CHOOSE i \in 1..Len(s) : CharAt(s, i) = c
    ELSE 0

\* the letters' case maps, as tables from one-character strings
ToLowerMap ==
    [ c \in { CharAt(UpperChars, i) : i \in 1..Len(UpperChars) } |->
        CharAt(LowerChars, IndexOf(c, UpperChars)) ]
ToUpperMap ==
    [ c \in { CharAt(LowerChars, i) : i \in 1..Len(LowerChars) } |->
        CharAt(UpperChars, IndexOf(c, LowerChars)) ]

LowerChar(c) == IF c \in DOMAIN ToLowerMap THEN ToLowerMap[c] ELSE c
UpperChar(c) == IF c \in DOMAIN ToUpperMap THEN ToUpperMap[c] ELSE c

RECURSIVE PyLower(_)
PyLower(s) == IF s = "" THEN "" ELSE LowerChar(Head(s)) \o PyLower(Tail(s))

RECURSIVE PyUpper(_)
PyUpper(s) == IF s = "" THEN "" ELSE UpperChar(Head(s)) \o PyUpper(Tail(s))

IsSpace(c) == c = " " \/ c = "\t"

RECURSIVE LStrip(_)
LStrip(s) == IF s # "" /\ IsSpace(Head(s)) THEN LStrip(Tail(s)) ELSE s

RECURSIVE RStrip(_)
RStrip(s) ==
    IF s # "" /\ IsSpace(CharAt(s, Len(s)))
    THEN RStrip(SubSeq(s, 1, Len(s) - 1))
    ELSE s

PyStrip(s) == RStrip(LStrip(s))

\* sub in s
PyIn(sub, s) ==
    \E i \in 1..(Len(s) - Len(sub) + 1) : SubSeq(s, i, i + Len(sub) - 1) = sub

IsDigit(c) == IndexOf(c, Digits) # 0
AllDigits(s) == \A i \in 1..Len(s) : IsDigit(CharAt(s, i))

RECURSIVE DigitsValue(_)
DigitsValue(s) ==
    IF s = "" THEN 0
    ELSE 10 * DigitsValue(SubSeq(s, 1, Len(s) - 1)) + (IndexOf(CharAt(s, Len(s)), Digits) - 1)

RECURSIVE DigitsOf(_)
DigitsOf(n) ==
    IF n < 10 THEN CharAt(Digits, n + 1)
    ELSE DigitsOf(n \div 10) \o CharAt(Digits, (n % 10) + 1)

\* the fraction digits of thousandths m (0..999), trailing zeros dropped, at
\* least one digit
FracDigits(m) ==
    IF m % 100 = 0 THEN DigitsOf(m \div 100)
    ELSE IF m % 10 = 0 THEN DigitsOf(m \div 100) \o DigitsOf((m \div 10) % 10)
    ELSE DigitsOf(m \div 100) \o DigitsOf((m \div 10) % 10) \o DigitsOf(m % 10)

\* repr of a float
FloatRepr(x) ==
    CASE x.k = "nan"  -> "nan"
      [] x.k = "pinf" -> "inf"
      [] x.k = "ninf" -> "-inf"
      [] OTHER ->
           LET a == IF x.n < 0 THEN 0 - x.n ELSE x.n IN
           (IF x.n < 0 THEN "-" ELSE "")
               \o DigitsOf(a \div Unit) \o "." \o FracDigits(a % Unit)

\* str(value)
PyStr(c) ==
    CASE c.k = "none"  -> "None"
      [] c.k = "float" -> FloatRepr(c.f)
      [] OTHER         -> c.s

\* the value of an unsigned decimal literal "ddd", "ddd.ddd", "ddd." or ".ddd"
\* with at most three fraction digits; Raised when t is no such literal
ParseUnsigned(t) ==
    LET dot == IndexOf(".", t)
        ip  == IF dot = 0 THEN t ELSE SubSeq(t, 1, dot - 1)
        fp  == IF dot = 0 THEN "" ELSE SubSeq(t, dot + 1, Len(t))
        pad == fp \o SubSeq("000", 1, 3 - Len(fp))
    IN  IF /\ AllDigits(ip) /\ AllDigits(fp)
           /\ Len(ip) + Len(fp) > 0
           /\ Len(fp) <= 3
        THEN Fin(DigitsValue(ip) * Unit + DigitsValue(pad))
        ELSE Raised

\* float(text): blanks stripped, an optional sign, then nan / inf / infinity
\* in any case or a decimal literal; anything else raises ValueError
ParseFloat(s) ==
    LET t    == PyStrip(s)
        sign == IF t # "" /\ (Head(t) = "-" \/ Head(t) = "+") THEN Head(t) ELSE ""
        body == IF sign = "" THEN t ELSE Tail(t)
        low  == PyLower(body)
        mag  == CASE low = "nan"                       -> NaN
                  [] low = "inf" \/ low = "infinity"   -> PInf
                  [] OTHER                             -> ParseUnsigned(body)
    IN  IF mag.k = "raise" THEN Raised
        ELSE IF sign = "-" THEN FNeg(mag) ELSE mag

\* float(value): TypeError for None, ValueError for text that is no number
PyFloat(c) ==
    CASE c.k = "none"  -> Raised
      [] c.k = "float" -> c.f
      [] OTHER         -> ParseFloat(c.s)

----------------------------------------------------------------------------
(* The utility functions (rater.py lines 19-106) *)

\* no clamp at all
clip01_unclamped(x) == x

\* the lower clamp max(0.0, ...) left out
clip01_no_floor(x) == PyMin(Fin(Unit), x)

clip01(x) == PyMax(Fin(0), PyMin(Fin(Unit), x))

util_prog(y_or_n) ==
    LET text == PyUpper(PyStrip(PyStr(y_or_n))) IN
    IF text = "Y" THEN Fin(1000)
    ELSE IF text = "N" THEN Fin(600)
    ELSE Fin(600)

\* loc.strip() without str(): a value that is not text raises
util_location_no_str(loc) ==
    IF loc.k # "str" THEN Raised
    ELSE LET loc_s == PyStrip(loc.s) IN
         IF loc_s = "Lindholmen" THEN Fin(1000)
         ELSE IF loc_s = "Johanneberg" THEN Fin(800)
         ELSE Fin(900)

util_location(loc) ==
    LET loc_s == PyStrip(PyStr(loc)) IN
    IF loc_s = "Lindholmen" THEN Fin(1000)
    ELSE IF loc_s = "Johanneberg" THEN Fin(800)
    ELSE IF PyLower(loc_s) = "online" THEN Fin(900)
    ELSE Fin(900)

\* the "both"-family test placed first
util_format_both_first(fmt) ==
    LET fmt_s == PyLower(PyStrip(PyStr(fmt))) IN
    IF PyIn("both", fmt_s) \/ PyIn("bth", fmt_s) \/ PyIn("mixed", fmt_s) THEN Fin(850)
    ELSE IF PyIn("lecture", fmt_s) THEN Fin(1000)
    ELSE Fin(900)

util_format(fmt) ==
    LET fmt_s == PyLower(PyStrip(PyStr(fmt))) IN
    IF PyIn("lecture", fmt_s) THEN Fin(1000)
    ELSE IF PyIn("project", fmt_s) /\ ~PyIn("lecture", fmt_s) THEN Fin(900)
    ELSE IF PyIn("both", fmt_s) \/ PyIn("bth", fmt_s) \/ PyIn("mixed", fmt_s) THEN Fin(850)
    ELSE Fin(900)

util_exam(exam) ==
    LET exam_s == PyLower(PyStrip(PyStr(exam))) IN
    IF PyIn("proj", exam_s) THEN Fin(1000)
    ELSE IF PyIn("mix", exam_s) \/ PyIn("both", exam_s) THEN Fin(800)
    ELSE IF PyIn("written", exam_s) THEN Fin(700)
    ELSE Fin(800)

\* the divisor 5.0 in place of 4.0
util_cost_div5(c) ==
    LET x == PyFloat(c) IN
    IF x.k = "raise" THEN Fin(500)
    ELSE clip01(FDiv(FSub(Fin(5000), x), Fin(5000)))

util_cost(c) ==
    LET x == PyFloat(c) IN
    IF x.k = "raise" THEN Fin(500)
    ELSE LET u == FDiv(FSub(Fin(5000), x), Fin(4000)) IN clip01(u)

util_benefit(c) ==
    LET x == PyFloat(c) IN
    IF x.k = "raise" THEN Fin(500)
    ELSE LET u == FDiv(FSub(x, Fin(1000)), Fin(4000)) IN clip01(u)

util_group(c) ==
    LET x == PyFloat(c) IN
    IF x.k = "raise" THEN Fin(500)
    ELSE LET u == FSub(Fin(1000), FDiv(FAbs(FSub(x, Fin(3000))), Fin(2000))) IN clip01(u)

----------------------------------------------------------------------------
(* Inputs of one utility call *)

Vocabulary ==
    { "Y", " n", "N ", "Lectures", "PROJECT", "project", "both", "bth", "Mixed",
      "proj", "written", "mix", "Lindholmen", "Johanneberg", "Online",
      "and", "x", "3", "2.5", "-1", "6.0", " 5 ", "nan", "-Inf", "infinity", "+4", "." }

Join(t, word) == IF t = "" THEN word ELSE t \o " " \o word

RECURSIVE TextsOf(_)
TextsOf(n) ==
    IF n = 0 THEN {""}
    ELSE LET shorter == TextsOf(n - 1) IN
         shorter \cup { Join(t, word) : t \in shorter, word \in Vocabulary }

Texts == TextsOf(MaxWords)

Numbers == { Fin(100 * t) : t \in (0 - MaxTenths)..MaxTenths } \cup {NaN, PInf, NInf}

RawValues ==
    {None} \cup { FloatCell(x) : x \in Numbers } \cup { StrCell(t) : t \in Texts }

UtilNames ==
    { "util_prog", "util_location", "util_format", "util_exam",
      "util_cost", "util_benefit", "util_group" }

CallUtil(name, c) ==
    CASE name = "util_prog"     -> util_prog(c)
      [] name = "util_location" -> util_location(c)
      [] name = "util_format"   -> util_format(c)
      [] name = "util_exam"     -> util_exam(c)
      [] name = "util_cost"     -> util_cost(c)
      [] name = "util_benefit"  -> util_benefit(c)
      [] OTHER                  -> util_group(c)

----------------------------------------------------------------------------
(* SpecUtil: one call of one utility function on an arbitrary raw value *)

Idle == [k |-> "idle", n |-> 0]

InitUtil ==
    /\ v \in RawValues
    /\ fn = "none"
    /\ ret = Idle
    /\ row = <<>> /\ res = Idle
    /\ pc = "util" /\ w = <<>> /\ df = <<>> /\ scores_df = <<>> /\ df_out = <<>>

Call(name) ==
    /\ pc = "util"
    /\ fn = "none"
    /\ fn' = name
    /\ ret' = CallUtil(name, v)
    /\ UNCHANGED <<v, row, res, pc, w, df, scores_df, df_out>>

Call_util_prog     == Call("util_prog")
Call_util_location == Call("util_location")
Call_util_format   == Call("util_format")
Call_util_exam     == Call("util_exam")
Call_util_cost     == Call("util_cost")
Call_util_benefit  == Call("util_benefit")
Call_util_group    == Call("util_group")

NextUtil ==
    \/ Call_util_prog
    \/ Call_util_location
    \/ Call_util_format
    \/ Call_util_exam
    \/ Call_util_cost
    \/ Call_util_benefit
    \/ Call_util_group

SpecUtil == InitUtil /\ [][NextUtil]_vars

----------------------------------------------------------------------------
(* Column names (rater.py lines 7-16; the en dash of "1-5" is written "-") *)

COL_PROG     == "Programme recommended (Y/N)"
COL_LOC      == "Location (Johanneberg/Lindholmen/online)"
COL_FMT      == "Teaching format (lectures / proj)"
COL_HARD     == "Hardness (1-5)"
COL_WORK     == "Workload (1-5)"
COL_INTEREST == "Interest / fun (1-5)"
COL_USEFUL   == "Usefulness for career (1-5)"
COL_ALIGN    == "Alignment with SE master (1-5)"
COL_EXAM     == "Exam type (written / proj / mixed)"
COL_GROUP    == "Group work level (1-5)"

Columns ==
    { COL_PROG, COL_LOC, COL_FMT, COL_HARD, COL_WORK, COL_INTEREST,
      COL_USEFUL, COL_ALIGN, COL_EXAM, COL_GROUP }

(* The weights, in thousandths (rater.py lines 108-117) *)

w_prog     == 100
w_loc      == 50
w_fmt      == 50
w_hard_negative == 0 - 100
w_hard     == 100
w_work     == 100
w_interest == 200
w_useful   == 200
w_align    == 150
w_group    == 50
w_exam_nonzero == 5 * 10
w_exam     == 0

\* the module globals as main() finds them
Weights ==
    [ w_prog |-> Fin(w_prog), w_loc |-> Fin(w_loc), w_fmt |-> Fin(w_fmt),
      w_hard |-> Fin(w_hard), w_work |-> Fin(w_work),
      w_interest |-> Fin(w_interest), w_useful |-> Fin(w_useful),
      w_align |-> Fin(w_align), w_group |-> Fin(w_group), w_exam |-> Fin(w_exam) ]

----------------------------------------------------------------------------
(* compute_score (rater.py lines 120-158) *)

\* a product of two floats; a finite product is kept in millionths (Unit * Unit)
FMul(a, b) ==
    CASE a.k = "nan" \/ b.k = "nan"  -> NaN
      [] a.k = "fin" /\ b.k = "fin"  -> Fin(a.n * b.n)
      [] a.k = "fin" /\ a.n = 0      -> NaN            \* 0 * inf
      [] b.k = "fin" /\ b.n = 0      -> NaN
      [] OTHER ->
           LET neg(x) == x.k = "ninf" \/ (x.k = "fin" /\ x.n < 0)
           IN  IF neg(a) = neg(b) THEN PInf ELSE NInf

\* the factor 100.0 left out
TimesOne(x) == IF x.k = "fin" THEN Fin(x.n \div Unit) ELSE x

\* 100.0 * x for a sum x of products: millionths back to thousandths
Times100(x) == IF x.k = "fin" THEN Fin((x.n * 100) \div Unit) ELSE x

\* row.get(col): None when the row has no such column
RowGet(r, col) == IF col \in DOMAIN r THEN r[col] ELSE None

ScoreFields ==
    { "u_prog", "u_loc", "u_fmt", "u_hard", "u_work", "u_interest",
      "u_useful", "u_align", "u_group", "u_exam", "Score" }

UtilityFields == ScoreFields \ {"Score"}

\* a call of compute_score that raised
Crash == [ f \in ScoreFields |-> Raised ]

compute_score(r) ==
    LET u_prog   == util_prog(RowGet(r, COL_PROG))
        u_loc    == util_location(RowGet(r, COL_LOC))
        u_fmt    == util_format(RowGet(r, COL_FMT))
        u_hard   == util_cost(RowGet(r, COL_HARD))
        u_work   == util_cost(RowGet(r, COL_WORK))
        u_inter  == util_benefit(RowGet(r, COL_INTEREST))
        u_useful == util_benefit(RowGet(r, COL_USEFUL))
        u_align  == util_benefit(RowGet(r, COL_ALIGN))
        u_group  == util_group(RowGet(r, COL_GROUP))
        u_exam   == util_exam(RowGet(r, COL_EXAM))
        score    == Times100(
                      FAdd(FAdd(FAdd(FAdd(FAdd(FAdd(FAdd(FAdd(FAdd(
                        FMul(w.w_prog, u_prog),
                        FMul(w.w_loc, u_loc)),
                        FMul(w.w_fmt, u_fmt)),
                        FMul(w.w_hard, u_hard)),
                        FMul(w.w_work, u_work)),
                        FMul(w.w_interest, u_inter)),
                        FMul(w.w_useful, u_useful)),
                        FMul(w.w_align, u_align)),
                        FMul(w.w_group, u_group)),
                        FMul(w.w_exam, u_exam)))
        result   == [ u_prog |-> u_prog, u_loc |-> u_loc, u_fmt |-> u_fmt,
                      u_hard |-> u_hard, u_work |-> u_work,
                      u_interest |-> u_inter, u_useful |-> u_useful,
                      u_align |-> u_align, u_group |-> u_group,
                      u_exam |-> u_exam, Score |-> score ]
    IN  \* an exception raised by a utility function leaves compute_score
        IF \E f \in UtilityFields : result[f].k = "raise" THEN Crash ELSE result

----------------------------------------------------------------------------
(* SpecScore: one call of compute_score on an arbitrary record.  Each      *)
(* column is absent or holds one of two sample cells.                      *)

SampleCells(col) ==
    CASE col = COL_PROG     -> << StrCell("Y"), StrCell(" n") >>
      [] col = COL_LOC      -> << StrCell("Lindholmen"), StrCell("Johanneberg") >>
      [] col = COL_FMT      -> << StrCell("Lectures and project"), StrCell("bth") >>
      [] col = COL_HARD     -> << FloatCell(Fin(1000)), FloatCell(Fin(6000)) >>
      [] col = COL_WORK     -> << FloatCell(Fin(0)), StrCell("x") >>
      [] col = COL_INTEREST -> << FloatCell(Fin(5000)), FloatCell(NaN) >>
      [] col = COL_USEFUL   -> << StrCell(" 5 "), FloatCell(Fin(2500)) >>
      [] col = COL_ALIGN    -> << FloatCell(Fin(7000)), FloatCell(Fin(1000)) >>
      [] col = COL_EXAM     -> << StrCell("proj"), StrCell("Written exam") >>
      [] OTHER              -> << FloatCell(Fin(3000)), FloatCell(PInf) >>

RecordOf(choice) ==
    [ col \in { c \in Columns : choice[c] # 0 } |-> SampleCells(col)[choice[col]] ]

Records == { RecordOf(choice) : choice \in [Columns -> 0..2] }

InitScore ==
    /\ row \in Records
    /\ res = Idle
    /\ w = Weights
    /\ v = None /\ fn = "none" /\ ret = Idle
    /\ pc = "score" /\ df = <<>> /\ scores_df = <<>> /\ df_out = <<>>

ComputeScore ==
    /\ pc = "score"
    /\ res = Idle
    /\ res' = compute_score(row)
    /\ UNCHANGED <<row, w, v, fn, ret, pc, df, scores_df, df_out>>

NextScore == ComputeScore

SpecScore == InitScore /\ [][NextScore]_vars

----------------------------------------------------------------------------
(* Spec: main() (rater.py lines 161-200) on a table of 1..MaxRows rows.    *)
(* A table has a set of columns (a column the file lacks is absent from    *)
(* every row); its rows are a typical course or that course with one cell  *)
(* changed.                                                                *)

Typical ==
    [ col \in Columns |->
        CASE col = COL_PROG     -> StrCell("Y")
          [] col = COL_LOC      -> StrCell("Johanneberg")
          [] col = COL_FMT      -> StrCell("lectures")
          [] col = COL_HARD     -> FloatCell(Fin(3000))
          [] col = COL_WORK     -> FloatCell(Fin(4000))
          [] col = COL_INTEREST -> FloatCell(Fin(4000))
          [] col = COL_USEFUL   -> FloatCell(Fin(3000))
          [] col = COL_ALIGN    -> FloatCell(Fin(2000))
          [] col = COL_EXAM     -> StrCell("written")
          [] OTHER              -> FloatCell(Fin(2000)) ]

Changes ==
    { <<COL_HARD, FloatCell(Fin(1000))>>,     <<COL_HARD, FloatCell(Fin(5000))>>,
      <<COL_HARD, FloatCell(NaN)>>,
      <<COL_WORK, FloatCell(Fin(3000))>>,     <<COL_WORK, FloatCell(Fin(6000))>>,
      <<COL_INTEREST, FloatCell(Fin(2000))>>, <<COL_INTEREST, StrCell("high")>>,
      <<COL_USEFUL, FloatCell(Fin(5000))>>,
      <<COL_ALIGN, FloatCell(Fin(4000))>>,    <<COL_ALIGN, FloatCell(Fin(500))>>,
      <<COL_EXAM, StrCell("proj")>>,          <<COL_EXAM, StrCell("mixed")>>,
      <<COL_PROG, StrCell("N")>> }

SampleRows == {Typical} \cup { [Typical EXCEPT ![c[1]] = c[2]] : c \in Changes }

ColumnSets ==
    { Columns, Columns \ {COL_EXAM}, Columns \ {COL_LOC}, Columns \ {COL_HARD} }

Restrict(r, cols) == [ col \in cols |-> r[col] ]

\* the tables pd.read_csv may deliver
Tables ==
    UNION { UNION { [1..n -> { Restrict(r, cols) : r \in SampleRows }]
                    : n \in 1..MaxRows }
            : cols \in ColumnSets }

Init ==
    /\ pc = "input"
    /\ w = Weights
    /\ df = <<>> /\ scores_df = <<>> /\ df_out = <<>>
    /\ v = None /\ fn = "none" /\ ret = Idle
    /\ row = <<>> /\ res = Idle

\* lines 162-165: the prompt; an empty path exits
InputPath ==
    /\ pc = "input"
    /\ \E empty \in BOOLEAN : pc' = IF empty THEN "exit" ELSE "isfile"
    /\ UNCHANGED <<w, df, scores_df, df_out, v, fn, ret, row, res>>

\* lines 167-169
CheckFile ==
    /\ pc = "isfile"
    /\ \E found \in BOOLEAN : pc' = IF found THEN "read" ELSE "exit"
    /\ UNCHANGED <<w, df, scores_df, df_out, v, fn, ret, row, res>>

\* lines 171-175: pd.read_csv delivers a table or raises
ReadCsv ==
    /\ pc = "read"
    /\ \/ /\ \E t \in Tables : df' = t
          /\ pc' = "apply"
       \/ /\ df' = df
          /\ pc' = "exit"
    /\ UNCHANGED <<w, scores_df, df_out, v, fn, ret, row, res>>

\* line 178: df.apply(compute_score, axis=1, result_type="expand"); an
\* exception of compute_score ends the program (scores_df then only records
\* the call that raised)
Apply ==
    /\ pc = "apply"
    /\ scores_df' = [ i \in 1..Len(df) |-> compute_score(df[i]) ]
    /\ pc' = IF \E i \in 1..Len(df) : scores_df'[i] = Crash THEN "crash" ELSE "concat"
    /\ UNCHANGED <<w, df, df_out, v, fn, ret, row, res>>

\* line 179: pd.concat([df, scores_df], axis=1), rows joined on the index
Concat ==
    /\ pc = "concat"
    /\ df_out' = [ i \in 1..Len(df) |->
                     [ index |-> i, cells |-> df[i], scores |-> scores_df[i] ] ]
    /\ pc' = "sort"
    /\ UNCHANGED <<w, df, scores_df, v, fn, ret, row, res>>

Orderings(n) ==
    { p \in [1..n -> 1..n] : \A i, j \in 1..n : p[i] = p[j] => i = j }

\* t's rows are in descending order of Score
Descending(t) ==
    \A i \in 1..(Len(t) - 1) : ~FLt(t[i].scores.Score, t[i + 1].scores.Score)

\* what sort_values("Score", ascending=False) may return: kind is left at its
\* default "quicksort", which is not a stable sort, so rows of equal Score
\* come out in any order
SortOutcomes(t) ==
    { s \in { [ i \in 1..Len(t) |-> t[p[i]] ] : p \in Orderings(Len(t)) }
        : Descending(s) }

\* line 182
SortValues ==
    /\ pc = "sort"
    /\ df_out' \in SortOutcomes(df_out)
    /\ pc' = "write"
    /\ UNCHANGED <<w, df, scores_df, v, fn, ret, row, res>>

\* lines 184-191: to_csv writes the file or raises
ToCsv ==
    /\ pc = "write"
    /\ \E written \in BOOLEAN : pc' = IF written THEN "preview" ELSE "exit"
    /\ UNCHANGED <<w, df, scores_df, df_out, v, fn, ret, row, res>>

\* lines 193-200: the top-5 preview
Preview ==
    /\ pc = "preview"
    /\ pc' = "done"
    /\ UNCHANGED <<w, df, scores_df, df_out, v, fn, ret, row, res>>

Next ==
    \/ InputPath
    \/ CheckFile
    \/ ReadCsv
    \/ Apply
    \/ Concat
    \/ SortValues
    \/ ToCsv
    \/ Preview

Spec == Init /\ [][Next]_vars

----------------------------------------------------------------------------
(* Properties of the utility functions, under SpecUtil *)

NumericUtils == { "util_cost", "util_benefit", "util_group" }

\* C1: whatever the input (a number inside or outside 1..5, negative,
\* infinite, NaN, text, an empty cell, an absent field), util_cost,
\* util_benefit and util_group return a value in [0, 1] and do not raise.
C1_UnitInterval ==
    fn \in NumericUtils => ret.k = "fin" /\ 0 <= ret.n /\ ret.n <= Unit

\* util_benefit applied to minus infinity has returned 0
C1_Witness == fn = "util_benefit" /\ v = FloatCell(NInf) /\ ret = Fin(0)

\* an input that carries no usable number: None, NaN, or text float() rejects
NoUsableNumber(c) ==
    \/ c.k = "none"
    \/ c.k = "float" /\ c.f.k = "nan"
    \/ c.k = "str" /\ ParseFloat(c.s).k = "raise"

\* C2: util_cost, util_benefit and util_group return exactly 0.5 for every
\* input that carries no usable number: non-numeric text, an absent field
\* (None) and an empty cell (NaN).
C2_NeutralDefault ==
    fn \in NumericUtils /\ NoUsableNumber(v) => ret = Fin(500)

Clamp01(n) == IF n < 0 THEN 0 ELSE IF n > Unit THEN Unit ELSE n

Distance(a, b) == IF a < b THEN b - a ELSE a - b

\* C3: for a finite number x, util_cost(x) = clip01((5 - x) / 4),
\* util_benefit(x) = clip01((x - 1) / 4), util_group(x) = clip01(1 - |x - 3| / 2),
\* the clamp applied to the mapped value; in particular util_cost maps
\* 1, 3, 5, 6, 0 to 1, 0.5, 0, 0, 1, util_benefit maps 1, 5 to 0, 1 and
\* util_group maps 3 to 1, 2 and 4 to 0.5, 1 and 5 to 0.
C3_LinearThenClip ==
    v.k = "float" /\ v.f.k = "fin" =>
        LET x == v.f.n IN
        /\ fn = "util_cost"    => ret = Fin(Clamp01((5000 - x) \div 4))
        /\ fn = "util_benefit" => ret = Fin(Clamp01((x - 1000) \div 4))
        /\ fn = "util_group"   => ret = Fin(Clamp01(1000 - Distance(x, 3000) \div 2))
        /\ fn = "util_cost" /\ x = 1000 => ret = Fin(1000)
        /\ fn = "util_cost" /\ x = 3000 => ret = Fin(500)
        /\ fn = "util_cost" /\ x = 5000 => ret = Fin(0)
        /\ fn = "util_cost" /\ x = 6000 => ret = Fin(0)
        /\ fn = "util_cost" /\ x = 0    => ret = Fin(1000)
        /\ fn = "util_benefit" /\ x = 1000 => ret = Fin(0)
        /\ fn = "util_benefit" /\ x = 5000 => ret = Fin(1000)
        /\ fn = "util_group" /\ x = 3000 => ret = Fin(1000)
        /\ fn = "util_group" /\ x \in {2000, 4000} => ret = Fin(500)
        /\ fn = "util_group" /\ x \in {1000, 5000} => ret = Fin(0)

\* util_cost applied to 6 has mapped it to -0.25 and clamped that to 0
C3_Witness == fn = "util_cost" /\ v = FloatCell(Fin(6000)) /\ ret = Fin(0)

\* C10: util_format decides on the lower-cased text by substring tests in a
\* fixed priority: "lecture" gives 1.0 whatever else is present; otherwise
\* "project" gives 0.9; otherwise "both", "bth" or "mixed" gives 0.85;
\* otherwise (blank and absent input included) 0.9.
C10_FormatPriority ==
    fn = "util_format" =>
        LET t == PyLower(PyStr(v)) IN
        ret = IF PyIn("lecture", t) THEN Fin(1000)
              ELSE IF PyIn("project", t) THEN Fin(900)
              ELSE IF PyIn("both", t) \/ PyIn("bth", t) \/ PyIn("mixed", t) THEN Fin(850)
              ELSE Fin(900)

\* util_format has returned 1.0 for a text naming lectures and "mixed"
C10_Witness == fn = "util_format" /\ v = StrCell("Lectures Mixed") /\ ret = Fin(1000)

----------------------------------------------------------------------------
(* Properties of compute_score, under SpecScore *)

\* the result holds the ten utilities of the record's raw fields
UtilitiesOfFields ==
    /\ res.u_prog     = util_prog(RowGet(row, COL_PROG))
    /\ res.u_loc      = util_location(RowGet(row, COL_LOC))
    /\ res.u_fmt      = util_format(RowGet(row, COL_FMT))
    /\ res.u_hard     = util_cost(RowGet(row, COL_HARD))
    /\ res.u_work     = util_cost(RowGet(row, COL_WORK))
    /\ res.u_interest = util_benefit(RowGet(row, COL_INTEREST))
    /\ res.u_useful   = util_benefit(RowGet(row, COL_USEFUL))
    /\ res.u_align    = util_benefit(RowGet(row, COL_ALIGN))
    /\ res.u_group    = util_group(RowGet(row, COL_GROUP))
    /\ res.u_exam     = util_exam(RowGet(row, COL_EXAM))

\* Score = 100 * (0.10 u_prog + 0.05 u_loc + 0.05 u_fmt + 0.10 u_hard
\* + 0.10 u_work + 0.20 u_interest + 0.20 u_useful + 0.15 u_align
\* + 0.05 u_group + 0.00 u_exam), both sides times 10000
WeightedSum ==
    /\ res.Score.k = "fin"
    /\ 10 * res.Score.n =
          100 * res.u_prog.n + 50 * res.u_loc.n + 50 * res.u_fmt.n
        + 100 * res.u_hard.n + 100 * res.u_work.n
        + 200 * res.u_interest.n + 200 * res.u_useful.n + 150 * res.u_align.n
        + 50 * res.u_group.n + 0 * res.u_exam.n

\* C4: compute_score returns exactly the ten utilities (each its attribute's
\* utility function applied to the record's raw field) plus Score, the
\* weighted sum times 100, and modifies neither the record nor the weights.
C4_ScoreRecord ==
    /\ [](res # Idle => DOMAIN res = ScoreFields /\ UtilitiesOfFields /\ WeightedSum)
    /\ [][row' = row /\ w' = w]_vars

\* a record with every column present (usefulness 2.5 among them) has been
\* scored, to 46.75
C4_Witness ==
    /\ res # Idle
    /\ DOMAIN row = Columns
    /\ row[COL_USEFUL] = FloatCell(Fin(2500))
    /\ res.u_useful = Fin(375)
    /\ res.Score = Fin(46750)

\* C5: whatever the record's fields, 0 <= Score <= 100 and each of the ten
\* utilities lies in [0, 1]; the weights are non-negative and sum to 1.00.
C5_Ranges ==
    /\ res # Idle =>
          /\ res.Score.k = "fin" /\ 0 <= res.Score.n /\ res.Score.n <= 100 * Unit
          /\ \A f \in UtilityFields :
                res[f].k = "fin" /\ 0 <= res[f].n /\ res[f].n <= Unit
    /\ \A name \in DOMAIN w : w[name].k = "fin" /\ w[name].n >= 0
    /\ w.w_prog.n + w.w_loc.n + w.w_fmt.n + w.w_hard.n + w.w_work.n
         + w.w_interest.n + w.w_useful.n + w.w_align.n + w.w_group.n
         + w.w_exam.n = Unit

\* a record with out-of-range ratings (workload 0, alignment 7) has reached
\* the top Score of 100
C5_Witness ==
    /\ res # Idle
    /\ RowGet(row, COL_WORK) = FloatCell(Fin(0))
    /\ RowGet(row, COL_ALIGN) = FloatCell(Fin(7000))
    /\ res.Score = Fin(100 * Unit)

\* the utility a column feeds, and the function's default for no value
UtilityOf(col) ==
    CASE col = COL_PROG     -> "u_prog"
      [] col = COL_LOC      -> "u_loc"
      [] col = COL_FMT      -> "u_fmt"
      [] col = COL_HARD     -> "u_hard"
      [] col = COL_WORK     -> "u_work"
      [] col = COL_INTEREST -> "u_interest"
      [] col = COL_USEFUL   -> "u_useful"
      [] col = COL_ALIGN    -> "u_align"
      [] col = COL_EXAM     -> "u_exam"
      [] OTHER              -> "u_group"

DocumentedDefault(col) ==
    CASE col = COL_PROG -> Fin(600)
      [] col = COL_LOC  -> Fin(900)
      [] col = COL_FMT  -> Fin(900)
      [] col = COL_EXAM -> Fin(800)
      [] OTHER          -> Fin(500)

\* C9: a record lacking any of the ten columns does not make compute_score
\* raise; each absent field yields its function's default (u_prog 0.6,
\* u_loc 0.9, u_fmt 0.9, u_exam 0.8, 0.5 for the six numeric ones) and a
\* Score is produced.
C9_AbsentColumns ==
    res # Idle =>
        /\ res # Crash
        /\ res.Score.k = "fin"
        /\ \A col \in Columns \ DOMAIN row : res[UtilityOf(col)] = DocumentedDefault(col)

\* a record with no attribute column at all has been scored, to 55.0
C9_Witness == res # Idle /\ DOMAIN row = {} /\ res.Score = Fin(55000)

----------------------------------------------------------------------------
(* Properties of main(), under Spec *)

\* df.apply has returned: every row of df has its result in scores_df
Applied == pc # "crash" /\ Len(df) > 0 /\ Len(scores_df) = Len(df)

\* two rows that agree in every column but col
DiffersOnlyIn(r1, r2, col) ==
    /\ col \in DOMAIN r1
    /\ DOMAIN r1 = DOMAIN r2
    /\ \A c \in DOMAIN r1 \ {col} : r1[c] = r2[c]

\* C6: exam type has no influence on the score: two records that differ only
\* in their exam-type field get the same Score and the same nine other
\* utilities, while u_exam is still computed by util_exam and emitted.
C6_ExamNoInfluence ==
    Applied =>
        /\ \A i \in 1..Len(df) :
              scores_df[i].u_exam = util_exam(RowGet(df[i], COL_EXAM))
        /\ \A i, j \in 1..Len(df) :
              DiffersOnlyIn(df[i], df[j], COL_EXAM) =>
                  \A f \in ScoreFields \ {"u_exam"} : scores_df[i][f] = scores_df[j][f]

\* two rows that differ only in exam type have been scored, with different
\* u_exam
C6_Witness ==
    /\ Applied
    /\ \E i, j \in 1..Len(df) :
          /\ DiffersOnlyIn(df[i], df[j], COL_EXAM)
          /\ scores_df[i].u_exam = Fin(1000)
          /\ scores_df[j].u_exam = Fin(700)

BenefitColumns == { COL_INTEREST, COL_USEFUL, COL_ALIGN }
CostColumns    == { COL_HARD, COL_WORK }

\* between rows i and j, which differ only in column col, the Score does not
\* fall / does not rise when col's utility does not fall
ScoreFollowsUtility(col, i, j) ==
    DiffersOnlyIn(df[i], df[j], col)
        /\ scores_df[i][UtilityOf(col)].n <= scores_df[j][UtilityOf(col)].n
    => scores_df[i].Score.n <= scores_df[j].Score.n

ScoreOpposesUtility(col, i, j) ==
    DiffersOnlyIn(df[i], df[j], col)
        /\ scores_df[i][UtilityOf(col)].n <= scores_df[j][UtilityOf(col)].n
    => scores_df[i].Score.n >= scores_df[j].Score.n

\* between rows i and j, which differ only in the finite rating of column
\* col, the Score does not rise when the rating does not fall
ScoreOpposesRating(col, i, j) ==
    /\ DiffersOnlyIn(df[i], df[j], col)
    /\ df[i][col].k = "float" /\ df[i][col].f.k = "fin"
    /\ df[j][col].k = "float" /\ df[j][col].f.k = "fin"
    /\ df[i][col].f.n <= df[j][col].f.n
    => scores_df[i].Score.n >= scores_df[j].Score.n

\* C7 as claimed: with the weights fixed and all other fields unchanged, Score
\* is non-decreasing in each benefit-type utility (u_interest, u_useful,
\* u_align) and non-increasing in each cost-type utility (u_hard, u_work).
C7_AsClaimed ==
    Applied =>
        \A i, j \in 1..Len(df) :
            /\ \A col \in BenefitColumns : ScoreFollowsUtility(col, i, j)
            /\ \A col \in CostColumns : ScoreOpposesUtility(col, i, j)

\* C7 as amended: Score is non-decreasing in each benefit-type utility and
\* also in each cost-type utility (u_hard, u_work); it is in the raw cost
\* rating (Hardness, Workload) that Score is non-increasing.
C7_Monotone ==
    Applied =>
        \A i, j \in 1..Len(df) :
            /\ \A col \in BenefitColumns \cup CostColumns : ScoreFollowsUtility(col, i, j)
            /\ \A col \in CostColumns : ScoreOpposesRating(col, i, j)

\* two rows that differ only in hardness (1 and 5) have been scored: the
\* easier one has the larger u_hard and the larger Score
C7_Witness ==
    /\ Applied
    /\ \E i, j \in 1..Len(df) :
          /\ DiffersOnlyIn(df[i], df[j], COL_HARD)
          /\ df[i][COL_HARD] = FloatCell(Fin(1000))
          /\ df[j][COL_HARD] = FloatCell(Fin(5000))
          /\ scores_df[i].u_hard.n > scores_df[j].u_hard.n
          /\ scores_df[i].Score.n > scores_df[j].Score.n

\* sort_values has returned
Sorted == pc \in {"write", "preview", "done"}

\* C8: the output table is a permutation of the input rows ordered by
\* descending Score, and the sort is stable: of two rows with equal Score the
\* one that came first in the input comes first in the output.
C8_StableDescending ==
    Sorted =>
        /\ Len(df_out) = Len(df)
        /\ { df_out[k].index : k \in 1..Len(df_out) } = 1..Len(df)
        /\ \A k \in 1..Len(df_out) :
              /\ df_out[k].cells = df[df_out[k].index]
              /\ df_out[k].scores = scores_df[df_out[k].index]
        /\ Descending(df_out)
        /\ \A k, l \in 1..Len(df_out) :
              k < l /\ df_out[k].scores.Score = df_out[l].scores.Score
                  => df_out[k].index < df_out[l].index

====
